---- MODULE Spec2Model ----
(***************************************************************************)
(* Model of the frame loop of src/src/main.rs: the closure passed to       *)
(* events_loop.run (lines 212-309), the swapchain set-up before it         *)
(* (lines 60-82, 196-210) and window_size_dependent_setup (lines 312-342). *)
(*                                                                         *)
(* The CPU side is the closure: one action per event arm, and the arm of   *)
(* RedrawEventsCleared is cut at every call that blocks the thread: one    *)
(* action runs from one blocking call to the next.  The GPU side is the    *)
(* queue the closure submits to: every future chain built at lines 284-291 *)
(* becomes a submission whose operations the device performs in chain      *)
(* order, each one a separate step, asynchronously to the closure and also *)
(* while the closure is blocked.                                           *)
(***************************************************************************)
EXTENDS Integers, Sequences, FiniteSets, TLC

VARIABLES
    control_flow,        \* *control_flow: "Poll" or "Exit"
    panicked,            \* TRUE once a panic!/unwrap has unwound the closure
    recreate_swapchain,  \* let mut recreate_swapchain
    previous_frame_end,  \* let mut previous_frame_end: Option<Box<dyn GpuFuture>>
    swapchain,           \* let mut swapchain
    framebuffers,        \* let mut framebuffers
    dynamic_state,       \* dynamic_state.viewports
    window_size,         \* surface.window().inner_size()
    subs,                \* what reached the queue, in submission order
    resized,             \* Resized events delivered since the last frame tick
    released,            \* TRUE once the closure and what it captured were dropped
    pc,                  \* where the thread of the event loop is: "events"
                         \* (between two events), "acquire" (blocked in
                         \* acquire_next_image), "flush" (blocked in the drop
                         \* of a failed chain), "drop" (dropping the closure)
    tick                 \* what the handler of the frame tick did so far, or did
                         \* when the last step ended a frame tick

vars == <<control_flow, panicked, recreate_swapchain, previous_frame_end,
          swapchain, framebuffers, dynamic_state, window_size, subs,
          resized, released, pc, tick>>

(***************************************************************************)
(* Bounds of the model.                                                    *)
(***************************************************************************)
MaxWork == 2
MaxImageCount == 2
MaxDim == 2
MaxResizes == 2

(***************************************************************************)
(* Program constants.                                                      *)
(***************************************************************************)
DefaultWidth == 1280
DefaultHeight == 1024

\* Window extents the windowing layer can report.
Extents == {<<d, d>> : d \in 1..MaxDim}
NoExtent == <<0, 0>>
DefaultExtent == <<DefaultWidth, DefaultHeight>>

(***************************************************************************)
(* Completion signals (GpuFuture values).                                  *)
(***************************************************************************)
None == [kind |-> "none", id |-> 0]
Now == [kind |-> "now", id |-> 0]
FenceOf(k) == [kind |-> "fence", id |-> k]
AcquireOf(k) == [kind |-> "acquire", id |-> k]

\* A submission has been fully processed by the device.
Completed(s) == s.pos > Len(s.ops)

Resolved(sig) ==
    CASE sig.kind = "now" -> TRUE
      [] sig.kind = "fence" -> Completed(subs[sig.id])
      [] sig.kind = "acquire" -> subs[sig.id].acq_ready
      [] OTHER -> FALSE

\* Operation op of submission s has been performed by the device.
Performed(s, op) == \E j \in 1..Len(s.ops) : s.ops[j] = op /\ j < s.pos

(***************************************************************************)
(* Swapchain construction.                                                 *)
(***************************************************************************)
ImageViews(sc) ==
    [i \in 1..sc.num_images |->
        [gen |-> sc.gen, image |-> i - 1, extent |-> sc.extent, format |-> sc.format]]

SwapchainStart(min_image_count, current_extent) ==
    [gen |-> 1,
     num_images |-> min_image_count,
     format |-> "F0",
     extent |-> IF current_extent = NoExtent THEN DefaultExtent ELSE current_extent,
     present_mode |-> "Fifo"]

SwapchainRecreate(sc, dimensions) ==
    [sc EXCEPT !.gen = sc.gen + 1, !.extent = dimensions]

window_size_dependent_setup(image_views) ==
    [viewport |-> image_views[1].extent,
     framebuffers |-> [i \in 1..Len(image_views) |-> image_views[i]]]

(***************************************************************************)
(* Command recording and the future chain of one frame.                    *)
(***************************************************************************)
\* Variant of RecordCommands: the render pass always targets framebuffers[0].
RecordCommandsFirst(fbs, image_num) ==
    [gen |-> fbs[1].gen, image |-> fbs[1].image]

\* The render pass of the command buffer targets framebuffers[image_num].
RecordCommands(fbs, image_num) ==
    [gen |-> fbs[image_num + 1].gen, image |-> fbs[image_num + 1].image]

\* Variants of JoinedSignals: the chain forgets one of the two futures.
JoinedSignalsNoPrevious(prev, acquire_future) == {acquire_future}
JoinedSignalsNoAcquire(prev, acquire_future) == {prev}

\* line 284-287: previous_frame_end.take().unwrap().join(acquire_future)
JoinedSignals(prev, acquire_future) == {prev, acquire_future}

\* Variant of ChainOps: the present is chained before the execution.
ChainOpsPresentFirst == <<"join", "present", "execute", "signal_fence">>

\* lines 284-291: the order of the chain
ChainOps == <<"join", "execute", "present", "signal_fence">>

PresentTarget(sc, image_num) == [gen |-> sc.gen, image |-> image_num]

\* previous_frame_end.join(acquire_future).then_execute(cb)
\*     .then_swapchain_present(swapchain, image_num).then_signal_fence_and_flush()
FrameFuture(prev, acquire_future, cb, sc, image_num, hazard) ==
    [wait |-> JoinedSignals(prev, acquire_future),
     prev |-> prev,
     cb |-> cb,
     present |-> PresentTarget(sc, image_num),
     ops |-> ChainOps,
     pos |-> 1,
     acq_ready |-> FALSE,
     hazard |-> hazard]

\* The chain whose presentation was refused: the command buffer was
\* submitted, the present and the fence never were.
PresentFailed(s) == [s EXCEPT !.ops = <<"join", "execute">>]

\* What is left of a submission whose future has been dropped: the
\* resources its chain held are released; what the queue was given stays on
\* record.
Released ==
    [wait |-> {}, prev |-> Now, cb |-> [gen |-> 0, image |-> -1],
     present |-> [gen |-> 0, image |-> -1], ops |-> <<>>, pos |-> 1,
     acq_ready |-> TRUE, hazard |-> FALSE]

\* The submissions whose futures the future sig owns: its own, and those of
\* the chain it joined (join takes the previous future by value).
RECURSIVE Owned(_, _)
Owned(ss, sig) ==
    IF sig.kind = "fence"
    THEN {sig.id} \cup Owned(ss, ss[sig.id].prev)
    ELSE {}

\* The walk of cleanup_finished() down the chain from the future sig: the
\* first future it meets whose fence is signalled is released with all it
\* owns; a future whose fence is not signalled passes the call on to the
\* future it joined.
RECURSIVE Finished(_, _)
Finished(ss, sig) ==
    IF sig.kind # "fence" THEN {}
    ELSE IF Completed(ss[sig.id]) THEN Owned(ss, sig)
    ELSE Finished(ss, ss[sig.id].prev)

\* The queue's record after the futures of the submissions in ks were
\* dropped.
Release(ss, ks) ==
    [k \in 1..Len(ss) |->
        IF k \in ks
        THEN [Released EXCEPT !.ops = ss[k].ops, !.pos = ss[k].pos]
        ELSE ss[k]]

\* line 221: previous_frame_end.as_mut().unwrap().cleanup_finished()
cleanup_finished(ss, frame_end) == Release(ss, Finished(ss, frame_end))

\* The drop of a failed chain (inside line 289 or 291) drops every future the
\* chain owns: the one taken from previous_frame_end at line 285, which the
\* chain joined, and with it all the loop still held.
DropChain(ss) == Release(ss, 1..Len(ss))

\* Most recent earlier submission that rendered to the same image index.
PriorOnSlot(ss, image_num) ==
    LET same == {j \in 1..Len(ss) : ss[j].cb.image = image_num}
    IN IF same = {} THEN 0 ELSE CHOOSE j \in same : \A i \in same : i <= j

(***************************************************************************)
(* Outcomes of the library calls the handler matches on.                   *)
(***************************************************************************)
\* Outcome of lines 227-247: "Ok" when the swapchain and its framebuffers were
\* rebuilt; "UnsupportedDimensions" and "OomError" are errors of
\* swapchain.recreate(); "ImageViewError" is the unwrap of line 231 failing;
\* "FramebufferError" is an unwrap of lines 332-335 failing.
RecreateResults ==
    {"Ok", "UnsupportedDimensions", "OomError", "ImageViewError", "FramebufferError"}
AcquireResults == {"Ok", "OutOfDate", "Timeout", "SurfaceLost"}
\* Outcome of lines 267-289: "RecordError" is one of the unwraps of lines
\* 271-282 failing, "ExecuteError" the unwrap of line 289.
BuildResults == {"Ok", "RecordError", "ExecuteError"}
FlushResults == {"Ok", "OutOfDate", "DeviceLost"}

NoTick ==
    [pending |-> FALSE, resizes |-> 0, last_reported |-> NoExtent, rebuilds |-> 0, rebuilt |-> FALSE,
     dims |-> NoExtent, flag_after_rebuild |-> FALSE,
     acquire |-> "none", image_num |-> 0, suboptimal |-> FALSE,
     recorded |-> FALSE, submitted |-> FALSE, flush |-> "none",
     result |-> "none", recreate |-> "none", prev_acquire |-> "none",
     acquired_from |-> 0, prev_suboptimal |-> FALSE, build |-> "none"]

NoResizes == [n |-> 0, last |-> NoExtent]

\* line 37: WindowBuilder::new() asks for no size, the window system chooses
\* the window's.  capabilities.current_extent, when the surface reports one,
\* is the size of the window; when it reports none (line 63 then falls back
\* to the constant) the window has any size.
WindowSizes(current_extent) ==
    IF current_extent = NoExtent THEN Extents \cup {DefaultExtent} ELSE {current_extent}

Init ==
    /\ control_flow = "Poll"
    /\ panicked = FALSE
    /\ recreate_swapchain = FALSE
    /\ previous_frame_end = Now
    /\ \E min_image_count \in 1..MaxImageCount, current_extent \in Extents \cup {NoExtent} :
          /\ swapchain = SwapchainStart(min_image_count, current_extent)
          /\ window_size \in WindowSizes(current_extent)
    /\ framebuffers = window_size_dependent_setup(ImageViews(swapchain)).framebuffers
    /\ dynamic_state = window_size_dependent_setup(ImageViews(swapchain)).viewport
    /\ subs = <<>>
    /\ resized = NoResizes
    /\ released = FALSE
    /\ pc = "events"
    /\ tick = NoTick

\* The event loop has neither panicked nor dropped the closure.  The closure
\* itself never looks at *control_flow.
Running == ~panicked /\ ~released

\* The thread of the event loop is between two events: the loop calls the
\* closure with the next one.
Dispatching == Running /\ pc = "events"

\* The handler of a frame tick is blocked inside a call.
InHandler(p) == p \in {"acquire", "flush"}

\* The device works for as long as the loop's values exist.
DeviceRunning == ~released

\* The frames submitted and the swapchains rebuilt so far: frame ticks are
\* followed while this is below MaxWork.
Work == Len(subs) + (swapchain.gen - 1)

\* The queue is idle: the device has performed everything it was given.
QueueIdle(ss) == \A k \in 1..Len(ss) : ss[k].pos > Len(ss[k].ops)

\* The log of the frame tick is kept while its handler is blocked, and
\* dropped by the first step after the handler has returned.
TickLog == IF InHandler(pc) THEN tick ELSE NoTick

(***************************************************************************)
(* Event::WindowEvent { event: WindowEvent::CloseRequested, .. }           *)
(***************************************************************************)
CloseRequested ==
    /\ Dispatching
    /\ control_flow' = "Exit"
    /\ tick' = NoTick
    /\ UNCHANGED <<panicked, recreate_swapchain, previous_frame_end, swapchain,
                   framebuffers, dynamic_state, window_size, subs, resized,
                   released, pc>>

(***************************************************************************)
(* The window is resized by its user: inner_size() changes at once, also   *)
(* while the closure is blocked in a call.  The closure owns the surface   *)
(* and its window, which exist until it has been dropped.                  *)
(***************************************************************************)
WindowResized ==
    /\ ~released
    /\ \E e \in Extents \ {window_size} : window_size' = e
    /\ tick' = TickLog
    /\ UNCHANGED <<control_flow, panicked, recreate_swapchain, previous_frame_end,
                   swapchain, framebuffers, dynamic_state, subs, resized, released,
                   pc>>

(***************************************************************************)
(* Event::WindowEvent { event: WindowEvent::Resized(_), .. }               *)
(* The arm ignores the size the event reports, and the closure takes the   *)
(* event whenever the loop hands it one, whether the window's size has     *)
(* changed or not.                                                         *)
(***************************************************************************)
\* Variant of ResizedFlag: line 218 is missing.
ResizedFlagUnchanged(flag) == flag

\* line 218
ResizedFlag(flag) == TRUE

\* The events delivered since the last frame tick are counted up to
\* MaxResizes, the last extent reported is kept.
Resized ==
    /\ Dispatching
    /\ \E e \in Extents :
          resized' = [n |-> IF resized.n < MaxResizes THEN resized.n + 1 ELSE resized.n,
                      last |-> e]
    /\ recreate_swapchain' = ResizedFlag(recreate_swapchain)
    /\ tick' = NoTick
    /\ UNCHANGED <<control_flow, panicked, previous_frame_end, swapchain,
                   framebuffers, dynamic_state, window_size, subs, released, pc>>

(***************************************************************************)
(* Event::RedrawEventsCleared, lines 220-306.                              *)
(***************************************************************************)

\* Variant of RebuildDimensions: the old swapchain's dimensions are reused.
RebuildDimensionsStale(ws) == swapchain.extent

\* line 227: the dimensions handed to swapchain.recreate()
RebuildDimensions(ws) == ws

\* Variant of RebuildExit: line 236 does not return.
RebuildExitFallsThrough(rc) ==
    CASE rc \in {"Ok", "UnsupportedDimensions"} -> "none"
      [] OTHER -> "panic"

\* lines 229-238 and the unwraps of lines 231, 332, 335: how the rebuild block
\* is left.  "none": the handler goes on to acquire; "return": line 236;
\* "panic": line 237 or a failed unwrap.
RebuildExit(rc) ==
    CASE rc = "Ok" -> "none"
      [] rc = "UnsupportedDimensions" -> "return"
      [] OTHER -> "panic"

\* Line 240 was reached, and with it line 324 of window_size_dependent_setup.
Installed(rc) == rc \in {"Ok", "FramebufferError"}

\* Variant of FlagAfterRebuild: line 248 is missing.
FlagAfterRebuildKept(flag, rc) == flag

\* Variant of FlagAfterRebuild: line 236 clears the flag before it returns.
FlagAfterRebuildDropsRetry(flag, rc) ==
    IF rc \in {"Ok", "UnsupportedDimensions"} THEN FALSE ELSE flag

\* line 248
FlagAfterRebuild(flag, rc) == IF rc = "Ok" THEN FALSE ELSE flag

\* Variant of FramebuffersAfterRebuild: lines 243-247 do not assign.
FramebuffersAfterRebuildKept(fbs, new_fbs, rc) == fbs

\* line 243: assigned when window_size_dependent_setup returned
FramebuffersAfterRebuild(fbs, new_fbs, rc) == IF rc = "Ok" THEN new_fbs ELSE fbs

\* lines 225-249: the rebuild block.
RebuildBlock(sc, fbs, vp, flag, ws, rc) ==
    IF ~flag
    THEN [exit |-> "none", swapchain |-> sc, framebuffers |-> fbs, viewport |-> vp,
          flag |-> flag, rebuilds |-> 0, rebuilt |-> FALSE, dims |-> NoExtent]
    ELSE LET dimensions == RebuildDimensions(ws)
             new_swapchain == SwapchainRecreate(sc, dimensions)
             setup == window_size_dependent_setup(ImageViews(new_swapchain))
         IN [exit |-> RebuildExit(rc),
             swapchain |-> IF Installed(rc) THEN new_swapchain ELSE sc,
             framebuffers |-> FramebuffersAfterRebuild(fbs, setup.framebuffers, rc),
             viewport |-> IF Installed(rc) THEN setup.viewport ELSE vp,
             flag |-> FlagAfterRebuild(flag, rc),
             rebuilds |-> 1, rebuilt |-> (rc = "Ok"), dims |-> dimensions]

\* Variant of AcquireExit: out-of-date falls into the panic arm.
AcquireExitFatal(ar) == IF ar = "Ok" THEN "none" ELSE "panic"

\* Variant of AcquireExit: every error is handled like out-of-date.
AcquireExitLenient(ar) == IF ar = "Ok" THEN "none" ELSE "return"

\* lines 251-259: the match on acquire_next_image's result
AcquireExit(ar) ==
    CASE ar = "Ok" -> "none"
      [] ar = "OutOfDate" -> "return"
      [] OTHER -> "panic"

\* line 251: the indices acquire_next_image(swapchain, None) can return.
\* Which image the presentation engine hands out, and when, is the
\* platform's choice; the loop takes whatever index it is given and keeps no
\* record of the images it holds.
FreeImages(sc) == 0..(sc.num_images - 1)

\* Variant of FlagAfterAcquire: lines 261-263 are missing.
FlagAfterAcquireNoSuboptimal(flag, ar, suboptimal) ==
    IF ar = "OutOfDate" THEN TRUE ELSE flag

\* Variant of FlagAfterAcquire: line 255 is missing.
FlagAfterAcquireNoStale(flag, ar, suboptimal) ==
    IF ar = "Ok" /\ suboptimal THEN TRUE ELSE flag

\* lines 255 and 261-263
FlagAfterAcquire(flag, ar, suboptimal) ==
    CASE ar = "OutOfDate" -> TRUE
      [] ar = "Ok" /\ suboptimal -> TRUE
      [] OTHER -> flag

\* Variant of FlagAfterFlush: line 298 is missing.
FlagAfterFlushIgnored(flag, fr) == flag

\* Variant of FrameEndAfterFlush: lines 299 and 303 are missing, the slot
\* stays as take() left it.
FrameEndAfterFlushTaken(fr, id) == IF fr = "Ok" THEN FenceOf(id) ELSE None

\* Variant of FrameEndAfterFlush: the flushed future is not kept.
FrameEndAfterFlushNow(fr, id) == Now

\* lines 293-305: the match on the flushed future.
\* line 298
FlagAfterFlush(flag, fr) == IF fr = "OutOfDate" THEN TRUE ELSE flag

\* lines 295, 299, 303
FrameEndAfterFlush(fr, id) == IF fr = "Ok" THEN FenceOf(id) ELSE Now

\* no arm of the match leaves the loop
FlushExit(fr) == "none"

\* What then_signal_fence_and_flush() has handed to the queue when it ends
\* with fr.
QueueAfterFlush(ss, future, fr) ==
    CASE fr = "Ok" -> Append(ss, future)
      [] fr = "OutOfDate" -> Append(ss, PresentFailed(future))
      [] OTHER -> ss

\* lines 220-252, up to the call of acquire_next_image: cleanup_finished()
\* and the rebuild block.  The handler ends here when the rebuild block
\* returns or panics; otherwise the thread enters acquire_next_image, which
\* has no timeout and blocks until the presentation engine has an image to
\* hand out.  A panic unwinds out of events_loop.run into the drop of the
\* closure.
RedrawEventsCleared ==
    /\ Dispatching
    /\ Work < MaxWork
    /\ resized' = NoResizes
    /\ UNCHANGED <<control_flow, window_size, previous_frame_end, released>>
    /\ \E rc \in (IF recreate_swapchain THEN RecreateResults ELSE {"Ok"}) :
        LET rb == RebuildBlock(swapchain, framebuffers, dynamic_state,
                               recreate_swapchain, window_size, rc)
            log0 == [NoTick EXCEPT !.pending = recreate_swapchain,
                                   !.resizes = resized.n,
                                   !.last_reported = resized.last,
                                   !.prev_acquire = tick.acquire,
                                   !.prev_suboptimal = tick.suboptimal]
            log1 == [log0 EXCEPT !.rebuilds = rb.rebuilds, !.rebuilt = rb.rebuilt,
                                 !.dims = rb.dims, !.flag_after_rebuild = rb.flag,
                                 !.recreate = IF recreate_swapchain THEN rc ELSE "none"]
        IN
        IF previous_frame_end = None
        THEN \* line 221: unwrap() on None
             /\ panicked' = TRUE
             /\ pc' = "drop"
             /\ tick' = [log0 EXCEPT !.result = "Fatal"]
             /\ UNCHANGED <<recreate_swapchain, swapchain, framebuffers,
                            dynamic_state, subs>>
        ELSE /\ subs' = cleanup_finished(subs, previous_frame_end)
             /\ swapchain' = rb.swapchain
             /\ framebuffers' = rb.framebuffers
             /\ dynamic_state' = rb.viewport
             /\ recreate_swapchain' = rb.flag
             /\ panicked' = (rb.exit = "panic")
             /\ pc' = CASE rb.exit = "panic" -> "drop"     \* line 237, 231, 332, 335
                        [] rb.exit = "return" -> "events"  \* line 236
                        [] OTHER -> "acquire"              \* line 252
             /\ tick' = [log1 EXCEPT !.result =
                            CASE rb.exit = "panic" -> "Fatal"
                              [] rb.exit = "return" -> "Skipped"
                              [] OTHER -> "none"]

\* lines 252-291: acquire_next_image returns and the handler runs on to the
\* end of the arm, unless the chain of lines 284-291 fails: then_execute and
\* then_signal_fence_and_flush drop the chain they were given before they
\* return the error, and that drop blocks until the queue is idle.
AcquireReturned ==
    /\ pc = "acquire"
    /\ UNCHANGED <<control_flow, window_size, swapchain, framebuffers,
                   dynamic_state, resized, released>>
    /\ \E ar \in AcquireResults :
       \E br \in (IF ar = "Ok" THEN BuildResults ELSE {"Ok"}) :
       \E fr \in (IF ar = "Ok" /\ br = "Ok" THEN FlushResults ELSE {"Ok"}),
          suboptimal \in (IF ar = "Ok" THEN BOOLEAN ELSE {FALSE}),
          image_num \in (IF ar = "Ok" THEN FreeImages(swapchain) ELSE {0}) :
        LET log2 == [tick EXCEPT !.acquire = ar,
                                 !.acquired_from = swapchain.gen,
                                 !.image_num = IF ar = "Ok" THEN image_num ELSE 0,
                                 !.suboptimal = (ar = "Ok" /\ suboptimal)]
            flag2 == FlagAfterAcquire(recreate_swapchain, ar, suboptimal)
            id == Len(subs) + 1
            prior == PriorOnSlot(subs, image_num)
            command_buffer == RecordCommands(framebuffers, image_num)
            future == FrameFuture(previous_frame_end, AcquireOf(id), command_buffer,
                                  swapchain, image_num,
                                  prior # 0 /\ ~Completed(subs[prior]))
            log3 == [log2 EXCEPT !.recorded = TRUE, !.submitted = (fr # "DeviceLost"),
                                 !.flush = fr, !.build = br]
        IN
        IF AcquireExit(ar) = "panic"
        THEN \* line 258
             /\ panicked' = TRUE
             /\ pc' = "drop"
             /\ tick' = [log2 EXCEPT !.result = "Fatal"]
             /\ UNCHANGED <<recreate_swapchain, previous_frame_end, subs>>
        ELSE IF AcquireExit(ar) = "return"
        THEN \* lines 254-257
             /\ recreate_swapchain' = flag2
             /\ pc' = "events"
             /\ tick' = [log2 EXCEPT !.result = "Skipped"]
             /\ UNCHANGED <<panicked, previous_frame_end, subs>>
        ELSE IF br = "RecordError"
        THEN \* an unwrap of lines 271-282: nothing was taken yet
             /\ recreate_swapchain' = flag2
             /\ panicked' = TRUE
             /\ pc' = "drop"
             /\ tick' = [log2 EXCEPT !.build = br, !.result = "Fatal"]
             /\ UNCHANGED <<previous_frame_end, subs>>
        ELSE IF br = "ExecuteError"
        THEN \* line 289: the future taken at line 285 is dropped with the
             \* failed chain, inside then_execute
             /\ recreate_swapchain' = flag2
             /\ previous_frame_end' = None
             /\ pc' = "flush"
             /\ tick' = [log2 EXCEPT !.build = br, !.recorded = TRUE]
             /\ UNCHANGED <<panicked, subs>>
        ELSE \* lines 261-291
             /\ recreate_swapchain' = flag2
             /\ subs' = QueueAfterFlush(subs, future, fr)
             /\ previous_frame_end' = IF fr = "Ok" THEN FrameEndAfterFlush(fr, id) ELSE None
             /\ pc' = IF fr = "Ok" THEN "events" ELSE "flush"
             /\ tick' = [log3 EXCEPT !.result = IF fr = "Ok" THEN "Presented" ELSE "none"]
             /\ UNCHANGED panicked

\* lines 289 and 291-305: the drop of the failed chain returns once the
\* queue is idle, and has released what the chain owned.  The unwrap of line 289 then panics; the match of lines
\* 293-305 takes one of its error arms.
ChainDropped ==
    /\ pc = "flush"
    /\ QueueIdle(subs)
    /\ subs' = DropChain(subs)
    /\ UNCHANGED <<control_flow, window_size, swapchain, framebuffers,
                   dynamic_state, resized, released>>
    /\ IF tick.build = "ExecuteError"
       THEN /\ panicked' = TRUE
            /\ pc' = "drop"
            /\ tick' = [tick EXCEPT !.result = "Fatal"]
            /\ UNCHANGED <<recreate_swapchain, previous_frame_end>>
       ELSE /\ recreate_swapchain' = FlagAfterFlush(recreate_swapchain, tick.flush)
            /\ previous_frame_end' = FrameEndAfterFlush(tick.flush, Len(subs))
            /\ panicked' = (FlushExit(tick.flush) = "panic")
            /\ pc' = IF FlushExit(tick.flush) = "panic" THEN "drop" ELSE "events"
            /\ tick' = [tick EXCEPT !.result =
                           IF FlushExit(tick.flush) = "panic" THEN "Fatal" ELSE "Skipped"]

(***************************************************************************)
(* The device and the presentation engine.                                 *)
(***************************************************************************)

\* The presentation engine signals the acquire future of submission k.
AcquireReady(k) ==
    /\ ~subs[k].acq_ready
    /\ subs' = [subs EXCEPT ![k].acq_ready = TRUE]

\* The device performs the next operation of submission k's chain.
OpEnabled(s) ==
    s.ops[s.pos] = "join" => \A w \in s.wait : Resolved(w)

GpuStep(k) ==
    /\ ~Completed(subs[k])
    /\ OpEnabled(subs[k])
    /\ subs' = [subs EXCEPT ![k].pos = subs[k].pos + 1]

PresentationEngine ==
    /\ DeviceRunning
    /\ \E k \in 1..Len(subs) : AcquireReady(k)
    /\ tick' = TickLog
    /\ UNCHANGED <<control_flow, panicked, recreate_swapchain, previous_frame_end,
                   swapchain, framebuffers, dynamic_state, window_size, resized,
                   released, pc>>

Gpu ==
    /\ DeviceRunning
    /\ \E k \in 1..Len(subs) : GpuStep(k)
    /\ tick' = TickLog
    /\ UNCHANGED <<control_flow, panicked, recreate_swapchain, previous_frame_end,
                   swapchain, framebuffers, dynamic_state, window_size, resized,
                   released, pc>>

(***************************************************************************)
(* line 212: the closure is a move closure, it owns previous_frame_end,    *)
(* swapchain and framebuffers.  Once *control_flow is Exit the event loop  *)
(* still calls it for the events it has at hand, then drops it; a panic    *)
(* drops it while unwinding.  previous_frame_end is dropped first, and the *)
(* drop of a flushed future blocks until its fence is signalled; the rest  *)
(* is dropped after it.                                                    *)
(***************************************************************************)
LoopDestroyed ==
    /\ Dispatching
    /\ control_flow = "Exit"
    /\ pc' = "drop"
    /\ tick' = NoTick
    /\ UNCHANGED <<control_flow, panicked, recreate_swapchain, previous_frame_end,
                   swapchain, framebuffers, dynamic_state, window_size, subs,
                   resized, released>>

ClosureDropped ==
    /\ pc = "drop"
    /\ ~released
    /\ previous_frame_end.kind = "fence" => Resolved(previous_frame_end)
    /\ released' = TRUE
    /\ tick' = NoTick
    /\ UNCHANGED <<control_flow, panicked, recreate_swapchain, previous_frame_end,
                   swapchain, framebuffers, dynamic_state, window_size, subs,
                   resized, pc>>

Next ==
    \/ CloseRequested
    \/ LoopDestroyed
    \/ WindowResized
    \/ Resized
    \/ RedrawEventsCleared
    \/ AcquireReturned
    \/ ChainDropped
    \/ ClosureDropped
    \/ PresentationEngine
    \/ Gpu

Spec == Init /\ [][Next]_vars

(***************************************************************************)
(* Properties.                                                             *)
(***************************************************************************)

\* The handler of a frame tick has returned or panicked in the last step.
IsTick == tick.result # "none"

\* The step enters the handler of a frame tick (line 220).
TickBegins == pc = "events" /\ (InHandler(pc') \/ IsTick')

\* The step is one of the handler of a frame tick.
HandlerStep == TickBegins \/ (InHandler(pc) /\ pc' # pc)

\* Submission k rendered to the same image index as the later submission s.
SameSlot(k, s) == subs[k].cb.image >= 0 /\ subs[k].cb.image = s.cb.image

\* C1: every submission is chained after the completion signal that
\* previous_frame_end held when it was built, and the device executes its
\* command buffer only when that signal has resolved and every earlier
\* submission that rendered to the same image index has finished.
C1_ChainedAfterPreviousFrame ==
    \A k \in 1..Len(subs) :
        LET s == subs[k] IN
        /\ Len(s.ops) > 0 /\ s.cb.image >= 0 => s.prev \in s.wait
        /\ Performed(s, "execute") =>
              /\ Resolved(s.prev)
              /\ \A j \in 1..(k - 1) : SameSlot(j, s) => Completed(subs[j])

\* C1 witness: the second of two frames on the same image index has been
\* executed, chained after the fence of the first.
C1_Witness ==
    \E k \in 1..Len(subs) : \E j \in 1..(k - 1) :
        /\ SameSlot(j, subs[k])
        /\ subs[k].prev = FenceOf(j)
        /\ Performed(subs[k], "execute")

\* C2 as stated: no command buffer is recorded against an image index while
\* an earlier submission to that index is still unresolved.
C2_RecordedOnlyAfterResolved ==
    \A k \in 1..Len(subs) : ~subs[k].hazard

\* C3: every submission waits on the acquire future of its own tick, and its
\* command buffer is executed only once that acquire signal has resolved.
C3_ExecutionWaitsOnOwnAcquire ==
    \A k \in 1..Len(subs) :
        LET s == subs[k] IN
        /\ Len(s.ops) > 0 /\ s.cb.image >= 0 => AcquireOf(k) \in s.wait
        /\ Performed(s, "execute") => s.acq_ready

\* C3 witness: a submitted frame has been executed after its acquire signal.
C3_Witness ==
    \E k \in 1..Len(subs) :
        /\ AcquireOf(k) \in subs[k].wait
        /\ Performed(subs[k], "execute")
        /\ ~Performed(subs[k], "present")

\* C4: a frame's image is presented only after its command buffer has been
\* executed, and the presented image is the one that was rendered.
C4_PresentAfterExecution ==
    \A k \in 1..Len(subs) :
        LET s == subs[k] IN
        /\ Performed(s, "present") => Performed(s, "execute")
        /\ s.present = [gen |-> s.cb.gen, image |-> s.cb.image]

\* C4 witness: a frame has been rendered and presented.
C4_Witness ==
    \E k \in 1..Len(subs) :
        /\ Performed(subs[k], "present")
        /\ subs[k].cb.image >= 0

\* C5: a tick whose acquisition reports out-of-date marks the rebuild as
\* pending and ends there: no panic, no exit, nothing recorded, submitted or
\* presented, and previous_frame_end is the one the tick began with (the
\* part of the handler before the acquisition does not touch it either).
C5_AcquireOutOfDateSkips ==
    [][/\ tick'.acquire = "OutOfDate" =>
             /\ pc = "acquire" /\ pc' = "events"
             /\ recreate_swapchain'
             /\ ~panicked' /\ control_flow' = control_flow
             /\ tick'.result = "Skipped"
             /\ ~tick'.recorded /\ ~tick'.submitted /\ tick'.flush = "none"
             /\ previous_frame_end' = previous_frame_end
             /\ subs' = subs
       /\ TickBegins =>
             /\ previous_frame_end' = previous_frame_end
             /\ subs' = cleanup_finished(subs, previous_frame_end)]_vars

\* C5 witness: a tick was skipped on out-of-date while a frame's fence was
\* being kept.
C5_Witness ==
    /\ tick.acquire = "OutOfDate"
    /\ tick.result = "Skipped"
    /\ previous_frame_end.kind = "fence"
    /\ recreate_swapchain

\* C6 as stated: a flush failure other than out-of-date is fatal, the loop
\* runs no further frame.
C6_FlushFailureIsFatal ==
    (IsTick /\ tick.flush = "DeviceLost") => (~Running /\ tick.result = "Fatal")

\* C7: a tick whose flush reports out-of-date ends with the rebuild marked
\* pending, a fresh resolved signal in previous_frame_end and the loop
\* running; the pending flag then stays set until a frame tick, and a tick
\* that starts with it set calls swapchain.recreate() once and goes on to
\* acquire only if that succeeded.
C7_FlushOutOfDateRebuildsNext ==
    [][/\ (IsTick' /\ tick'.flush = "OutOfDate") =>
             /\ recreate_swapchain'
             /\ ~panicked' /\ control_flow' = control_flow
             /\ pc' = "events"
             /\ previous_frame_end' = Now
       /\ recreate_swapchain /\ ~HandlerStep => recreate_swapchain'
       /\ recreate_swapchain /\ TickBegins =>
             /\ tick'.rebuilds = 1
             /\ pc' = "acquire" => tick'.rebuilt]_vars

\* C7 witness: the frame after one whose present was refused was submitted by
\* a tick that first rebuilt the swapchain.
C7_Witness ==
    /\ Len(subs) >= 2
    /\ subs[Len(subs) - 1].ops = <<"join", "execute">>
    /\ tick.result = "Presented"
    /\ tick.pending /\ tick.rebuilt
    /\ subs[Len(subs)].cb.gen = swapchain.gen

\* C8 as stated: an acquisition timeout ends the tick as a skipped frame and
\* the loop continues.
C8_AcquireTimeoutSkips ==
    tick.acquire = "Timeout" => (tick.result = "Skipped" /\ Running)

\* C9: after one or more Resized events, the next tick calls
\* swapchain.recreate() exactly once, before it acquires, with the size the
\* window has at the call, whatever the events reported.  When the call
\* succeeds exactly one new swapchain is installed, with the window's size;
\* when the rebuild block is left without a rebuild and without a panic the
\* swapchain is unchanged; the rest of the tick rebuilds nothing.
C9_ResizeCoalescing ==
    [][/\ TickBegins /\ resized.n >= 1 =>
             /\ tick'.resizes = resized.n
             /\ tick'.rebuilds = 1
             /\ tick'.dims = window_size
             /\ tick'.rebuilt =>
                   /\ swapchain'.gen = swapchain.gen + 1
                   /\ swapchain'.extent = window_size
                   /\ dynamic_state' = window_size
             /\ (~tick'.rebuilt /\ ~panicked') => swapchain' = swapchain
       /\ InHandler(pc) =>
             /\ swapchain' = swapchain
             /\ tick'.rebuilds = tick.rebuilds /\ tick'.dims = tick.dims]_vars

\* C9 witness: two Resized events were followed by a tick that rebuilt the
\* swapchain once, to the window's size, which is not the size the last
\* event had reported, and that is about to acquire.
C9_Witness ==
    /\ pc = "acquire"
    /\ tick.resizes = 2
    /\ tick.rebuilt
    /\ swapchain.gen = 2
    /\ swapchain.extent = window_size
    /\ tick.last_reported \in Extents
    /\ swapchain.extent # tick.last_reported
    /\ swapchain.extent # SwapchainStart(1, NoExtent).extent

\* C10: a tick calls swapchain.recreate() at most once, in its rebuild
\* block, and only when the rebuild was pending at its start; a successful
\* rebuild clears the flag (it is set again in the same tick only by a
\* suboptimal acquire or an out-of-date acquire or flush); a tick without a
\* pending rebuild leaves swapchain, framebuffers and viewport alone, as does
\* every step that is not the rebuild block of a tick.
C10_AtMostOneRebuildPerTick ==
    [][/\ TickBegins =>
             /\ tick'.rebuilds <= 1
             /\ tick'.pending = recreate_swapchain
             /\ swapchain'.gen \in {swapchain.gen, swapchain.gen + 1}
             /\ tick'.rebuilds = 1 <=> recreate_swapchain
             /\ (swapchain' # swapchain /\ ~panicked') => recreate_swapchain /\ tick'.rebuilt
             /\ tick'.rebuilt => (~tick'.flag_after_rebuild /\ ~recreate_swapchain')
             /\ ~recreate_swapchain =>
                   /\ swapchain' = swapchain
                   /\ framebuffers' = framebuffers
                   /\ dynamic_state' = dynamic_state
       /\ ~TickBegins =>
             /\ swapchain' = swapchain
             /\ framebuffers' = framebuffers
             /\ dynamic_state' = dynamic_state
       /\ InHandler(pc) => tick'.rebuilds = tick.rebuilds
       /\ (IsTick' /\ tick'.rebuilt /\ tick'.acquire = "Ok" /\ ~tick'.suboptimal
              /\ tick'.flush # "OutOfDate") => ~recreate_swapchain']_vars

\* C10 witness: a tick rebuilt the swapchain, presented a frame and left no
\* rebuild pending.
C10_Witness ==
    /\ tick.pending /\ tick.rebuilt
    /\ tick.result = "Presented"
    /\ ~recreate_swapchain

\* C11: a tick whose swapchain.recreate() fails with UnsupportedDimensions
\* leaves the swapchain, the framebuffers, the viewport and
\* previous_frame_end as they were, keeps the rebuild pending and the loop
\* running, and returns before it acquires, records or submits anything.
C11_FailedRebuildKeepsOldSet ==
    [][tick'.recreate = "UnsupportedDimensions" =>
          /\ swapchain' = swapchain
          /\ framebuffers' = framebuffers
          /\ dynamic_state' = dynamic_state
          /\ previous_frame_end' = previous_frame_end
          /\ recreate_swapchain'
          /\ control_flow' = control_flow /\ ~panicked'
          /\ pc' = "events"
          /\ tick'.result = "Skipped"
          /\ tick'.acquire = "none"
          /\ ~tick'.recorded /\ ~tick'.submitted
          /\ Len(subs') = Len(subs)]_vars

\* C11 witness: a rebuild to a new window size failed with
\* UnsupportedDimensions while a frame of the old swapchain was in flight;
\* the old swapchain and its framebuffers are still installed and the
\* rebuild is still pending.
C11_Witness ==
    /\ tick.recreate = "UnsupportedDimensions"
    /\ tick.result = "Skipped"
    /\ recreate_swapchain
    /\ window_size # swapchain.extent
    /\ dynamic_state = swapchain.extent
    /\ Len(framebuffers) = swapchain.num_images
    /\ \E k \in 1..Len(subs) : ~Completed(subs[k]) /\ subs[k].cb.gen = swapchain.gen

\* The future of submission k is owned by the loop: the chain of every later
\* submission joined the future before it (join takes it by value, lines
\* 284-287), and the last one is the future kept in previous_frame_end
\* (line 295) or the chain the thread is blocked dropping.
ChainHolds(k) ==
    /\ \A j \in (k + 1)..Len(subs) : FenceOf(j - 1) \in subs[j].wait
    /\ \/ previous_frame_end = FenceOf(Len(subs))
       \/ pc = "flush"

\* C12: a frame the device has not finished was built against a swapchain
\* the loop had installed, and its future, which holds the clones of that
\* swapchain and of its framebuffer (lines 275 and 290), is still owned by
\* the loop through previous_frame_end, whether or not the loop has rebuilt
\* the swapchain since: replacing swapchain and framebuffers (lines 240-247)
\* drops the loop's handles only, and the loop's values are dropped only
\* when no frame is unfinished.
C12_OldSetOutlivesItsFrames ==
    \A k \in 1..Len(subs) :
        ~Completed(subs[k]) =>
            /\ ~released
            /\ subs[k].cb.gen \in 1..swapchain.gen
            /\ subs[k].present.gen = subs[k].cb.gen
            /\ ChainHolds(k)

\* C12 witness: the swapchain has been rebuilt while a frame submitted
\* against the previous swapchain is unfinished; the loop's own swapchain
\* and framebuffers are the new ones, and the old ones are held by that
\* frame's future, which previous_frame_end keeps.
C12_Witness ==
    /\ swapchain.gen > 1
    /\ \A i \in 1..Len(framebuffers) : framebuffers[i].gen = swapchain.gen
    /\ \E k \in 1..Len(subs) :
          /\ ~Completed(subs[k])
          /\ subs[k].cb.gen \in 1..(swapchain.gen - 1)
          /\ previous_frame_end = FenceOf(k)

\* C13 as stated: at the end of a frame tick no acquired image is left
\* unsubmitted: an image acquired in the tick has been handed to the queue,
\* or the loop has terminated.
C13_NoUnsubmittedAcquisition ==
    (IsTick /\ tick.acquire = "Ok") => (tick.submitted \/ panicked)

\* Submissions k and k + 1 are two frames presented one after the other on
\* the same swapchain, with no failure and no rebuild between them.
ConsecutiveFrames(k) ==
    /\ subs[k].present.gen >= 1
    /\ subs[k + 1].present.gen = subs[k].present.gen
    /\ subs[k].ops = ChainOps /\ subs[k + 1].ops = ChainOps

\* C14 as stated: consecutive frames present the image indices in cyclic
\* order 0, 1, .., num_images - 1, 0, ..: none is skipped and none is
\* presented twice in a row.
C14_CyclicImageOrder ==
    \A k \in 1..(Len(subs) - 1) :
        ConsecutiveFrames(k) =>
            /\ subs[k + 1].present.image =
                  (subs[k].present.image + 1) % swapchain.num_images
            /\ subs[k + 1].present.image # subs[k].present.image

\* clamp(m, 2, unbounded)
ClampImageCount(m) == IF m < 2 THEN 2 ELSE m

\* C18 as stated: the swapchain is built with
\* clamp(capabilities.min_image_count, 2, unbounded) images, so never with
\* fewer than two, and with present mode FIFO.
C18_ImageCountClamped ==
    /\ \A m \in 1..MaxImageCount :
          SwapchainStart(m, NoExtent).num_images = ClampImageCount(m)
    /\ swapchain.num_images >= 2
    /\ swapchain.present_mode = "Fifo"

\* C15: a tick whose acquisition reports out-of-date is skipped with the
\* rebuild pending and the loop running; the flag stays set until the next
\* tick; that tick calls swapchain.recreate() exactly once with the window's
\* current size and, when the call succeeds, installs a swapchain of that
\* size and goes on to acquire; a tick whose acquisition and flush succeed
\* ends with its frame submitted for presentation on the installed
\* swapchain.
C15_StaleAcquireRecovers ==
    [][/\ tick'.acquire = "OutOfDate" =>
             /\ tick'.result = "Skipped" /\ ~tick'.submitted
             /\ recreate_swapchain'
             /\ ~panicked' /\ control_flow' = control_flow
             /\ pc' = "events"
       /\ recreate_swapchain /\ ~HandlerStep => recreate_swapchain'
       /\ recreate_swapchain /\ TickBegins =>
             /\ tick'.rebuilds = 1
             /\ tick'.dims = window_size
             /\ tick'.recreate = "Ok" =>
                   /\ pc' = "acquire"
                   /\ swapchain'.gen = swapchain.gen + 1
                   /\ swapchain'.extent = window_size
       /\ (pc = "acquire" /\ tick'.acquire = "Ok" /\ tick'.flush = "Ok") =>
             /\ tick'.result = "Presented"
             /\ pc' = "events"
             /\ swapchain' = swapchain
             /\ Len(subs') = Len(subs) + 1
             /\ subs'[Len(subs')].present =
                   [gen |-> swapchain.gen, image |-> tick'.image_num]
             /\ previous_frame_end' = FenceOf(Len(subs'))]_vars

\* C15 witness: the tick that directly followed a tick skipped for an
\* out-of-date acquisition rebuilt the swapchain to the window's size, which
\* was not the old swapchain's, and presented a frame on it.
C15_Witness ==
    /\ tick.prev_acquire = "OutOfDate"
    /\ tick.pending /\ tick.rebuilds = 1 /\ tick.rebuilt
    /\ tick.result = "Presented"
    /\ swapchain.extent = tick.dims
    /\ swapchain.extent # SwapchainStart(1, NoExtent).extent
    /\ subs[Len(subs)].present.gen = swapchain.gen

\* C16: once the loop has ended (after CloseRequested, or by a panic) and
\* dropped what it owned, every submission has completed: the drop of the
\* loop's resources never overtakes a frame that is still in flight.
C16_ReleasedOnlyWhenIdle ==
    released =>
        /\ control_flow = "Exit" \/ panicked
        /\ previous_frame_end # None => Resolved(previous_frame_end)
        /\ \A k \in 1..Len(subs) : Completed(subs[k])

\* C16 witness: the loop was closed and its resources released after the
\* last frame, which no tick had seen finished, was presented and signalled.
C16_Witness ==
    /\ released
    /\ control_flow = "Exit" /\ ~panicked
    /\ previous_frame_end.kind = "fence"
    /\ subs[previous_frame_end.id].cb.gen >= 1
    /\ Performed(subs[previous_frame_end.id], "signal_fence")

\* C17: a tick whose acquisition fails with anything but out-of-date panics:
\* the loop is stopped and its closure dropped, and the tick has recorded no
\* command buffer, flushed nothing, put nothing on the queue and left
\* previous_frame_end alone.
C17_AcquireFailureIsFatal ==
    [][tick'.acquire \notin {"none", "Ok", "OutOfDate"} =>
          /\ panicked' /\ ~Running'
          /\ pc' = "drop"
          /\ tick'.result = "Fatal"
          /\ ~tick'.recorded /\ ~tick'.submitted /\ tick'.flush = "none"
          /\ subs' = subs
          /\ previous_frame_end' = previous_frame_end]_vars

\* C17 witness: the loop stopped on a lost surface after an earlier frame had
\* been submitted whose fence previous_frame_end still holds.
C17_Witness ==
    /\ tick.acquire = "SurfaceLost"
    /\ panicked
    /\ tick.result = "Fatal"
    /\ previous_frame_end.kind = "fence"
    /\ subs[previous_frame_end.id].cb.gen >= 1

\* C19: the handling of a Resized event sets recreate_swapchain and nothing
\* else of the loop's state: the swapchain, the framebuffers, the viewport
\* and previous_frame_end are unchanged, no swapchain is created and nothing
\* is acquired or put on the queue.
C19_ResizedOnlyMarksPending ==
    [][(resized' # resized /\ resized'.n >= 1) =>
          /\ recreate_swapchain'
          /\ window_size' = window_size
          /\ swapchain' = swapchain
          /\ framebuffers' = framebuffers
          /\ dynamic_state' = dynamic_state
          /\ previous_frame_end' = previous_frame_end
          /\ subs' = subs
          /\ ~IsTick' /\ pc' = pc
          /\ control_flow' = control_flow /\ panicked' = panicked]_vars

\* C19 witness: a Resized event that reports the window's new size has been
\* handled while a frame was in flight; the rebuild is pending and the
\* installed swapchain, framebuffers and viewport are still those of the old
\* size.
C19_Witness ==
    /\ resized.n >= 1
    /\ ~IsTick
    /\ recreate_swapchain
    /\ window_size = resized.last
    /\ swapchain.extent # window_size
    /\ dynamic_state = swapchain.extent
    /\ \A i \in 1..Len(framebuffers) : framebuffers[i].extent = swapchain.extent
    /\ previous_frame_end.kind = "fence"
    /\ ~Resolved(previous_frame_end)

\* C20: in every state in which the loop has not panicked it holds exactly
\* one framebuffer per image of the installed swapchain, the i-th one built
\* on the swapchain's i-th image, with the swapchain's extent and format,
\* and the viewport has the swapchain's extent.
C20_FramebuffersMatchSwapchain ==
    ~panicked =>
        /\ Len(framebuffers) = swapchain.num_images
        /\ \A i \in 1..Len(framebuffers) :
              /\ framebuffers[i].gen = swapchain.gen
              /\ framebuffers[i].image = i - 1
              /\ framebuffers[i].extent = swapchain.extent
              /\ framebuffers[i].format = swapchain.format
        /\ dynamic_state = swapchain.extent

\* C20 witness: after a resize and a rebuild, the swapchain of the second
\* generation is installed with the window's new size, and the framebuffers
\* and the viewport are those of that swapchain.
C20_Witness ==
    /\ swapchain.gen = 2
    /\ swapchain.extent \in Extents
    /\ swapchain.extent = window_size
    /\ Len(framebuffers) = MaxImageCount
    /\ \A i \in 1..Len(framebuffers) :
          framebuffers[i].gen = 2 /\ framebuffers[i].extent = window_size
    /\ dynamic_state = window_size
    /\ tick.rebuilt

C22_FrameEndNeverEmpty ==
    /\ (~panicked /\ pc # "flush") =>
          /\ previous_frame_end # None
          /\ previous_frame_end.kind \in {"now", "fence"}
    /\ pc = "flush" => previous_frame_end = None
    /\ previous_frame_end.kind = "fence" => previous_frame_end.id \in 1..Len(subs)
    /\ (IsTick /\ tick.flush = "Ok") => previous_frame_end = FenceOf(Len(subs))
    /\ (IsTick /\ tick.flush \in {"OutOfDate", "DeviceLost"}) => previous_frame_end = Now

\* C22 witness: after a frame had been submitted, a later tick took the slot
\* and its flush failed; the handler has ended, the slot holds a fresh signal
\* and the loop runs on.
C22_Witness ==
    /\ IsTick
    /\ tick.flush \in {"OutOfDate", "DeviceLost"}
    /\ previous_frame_end = Now
    /\ Dispatching
    /\ \E k \in 1..Len(subs) : subs[k].ops = ChainOps

\* C23: a tick whose acquisition succeeds with suboptimal set goes on in the
\* same tick: unless recording the command buffer or chaining it panics, it
\* records the command buffer and flushes the chain, and when the flush
\* succeeds the frame is on the queue for presentation at the acquired
\* index.  It rebuilds nothing on account of the report (it has called
\* swapchain.recreate() only if the rebuild was pending when it began), it
\* ends with the rebuild pending, the flag stays set until the next tick, and
\* that tick calls swapchain.recreate() before it acquires.
C23_SuboptimalPresentsThenRebuilds ==
    [][/\ (pc = "acquire" /\ tick'.suboptimal) =>
             /\ tick'.acquire = "Ok"
             /\ tick'.rebuilds = (IF tick'.pending THEN 1 ELSE 0)
             /\ tick'.rebuilds = tick.rebuilds
             /\ swapchain' = swapchain
             /\ recreate_swapchain'
             /\ control_flow' = control_flow
             /\ panicked' <=> tick'.build = "RecordError"
             /\ tick'.build = "Ok" => (tick'.recorded /\ tick'.flush # "none")
             /\ tick'.flush = "Ok" =>
                   /\ tick'.result = "Presented"
                   /\ Len(subs') = Len(subs) + 1
                   /\ subs'[Len(subs')].ops = ChainOps
                   /\ subs'[Len(subs')].present =
                         [gen |-> swapchain.gen, image |-> tick'.image_num]
       /\ (IsTick' /\ tick'.suboptimal) =>
             /\ recreate_swapchain'
             /\ panicked' <=> tick'.build # "Ok"
       /\ recreate_swapchain /\ ~HandlerStep => recreate_swapchain'
       /\ recreate_swapchain /\ TickBegins =>
             /\ tick'.rebuilds = 1
             /\ pc' = "acquire" => (tick'.rebuilt /\ swapchain'.gen = swapchain.gen + 1)]_vars

\* C23 witness: the tick that directly followed a suboptimal frame rebuilt
\* the swapchain first; the suboptimal frame went to presentation on the old
\* swapchain.
C23_Witness ==
    /\ tick.prev_suboptimal
    /\ tick.pending /\ tick.rebuilds = 1 /\ tick.rebuilt
    /\ \E k \in 1..Len(subs) :
          /\ subs[k].ops = ChainOps
          /\ subs[k].present.gen = swapchain.gen - 1

\* Number of execute operations in the chain of submission s.
Executions(s) == Cardinality({j \in 1..Len(s.ops) : s.ops[j] = "execute"})

====
